---- MODULE Spec2Model ----
(***************************************************************************)
(* Active-learning loop of main.py: the MNIST data module's pools          *)
(* (data_train = labeled, data_unlabeled, data_val), class balancing,      *)
(* the two acquisition functions and the train / test / reset / label      *)
(* loop of main().                                                         *)
(*                                                                         *)
(* Randomness (random_split, random.sample), the model's output (the       *)
(* entropy scores) and the order torch.topk gives to equal scores are      *)
(* nondeterministic choices.  Exceptions are modelled by pc = "error"      *)
(* with the exception class in err; an uncaught exception ends main().     *)
(***************************************************************************)
EXTENDS Integers, Sequences, FiniteSets, TLC

\* ---- bounds (the program's sizes, scaled down) --------------------------
DataLen      == 4   \* len(data_full) (60000 for MNIST)
NumClasses   == 2   \* len(subset.dataset.classes) (10 for MNIST)
MaxLabels    == 2   \* largest --initial-labels / --aquisition-labels tried
MaxScore     == 1   \* entropy scores are levels 0..MaxScore
NumRounds    == 3   \* iterations of the main loop (range(20) in main.py:254)
MaxFitEpochs == 1   \* most epochs one trainer.fit call runs

\* ---- the dataset --------------------------------------------------------
\* the sizes given to random_split ([50000, 10000] in main.py:72): the
\* validation part is a single index, the train part the rest
SplitTrain == DataLen - 1
SplitVal   == DataLen - SplitTrain
DataFull   == 1..DataLen
Classes    == 0..(NumClasses - 1)

\* subset.dataset.targets[index]
targets(index) == index % NumClasses

\* multipliers of --class-balance; whole numbers and halves of them divide
\* exactly in floating point, so the arithmetic below is the code's
Multipliers == {0, 1, 2}

\* torch.tensor(numpy.Inf): worse than every validation loss 0..MaxScore
Inf == MaxScore + 1

\* ---- helpers ------------------------------------------------------------
Range(s) == {s[i] : i \in 1..Len(s)}

NoDup(s) == \A i, j \in 1..Len(s) : i # j => s[i] # s[j]

Min2(a, b) == IF a <= b THEN a ELSE b

\* one-to-one choices of k positions out of 1..n, in every order
Injections(k, n) ==
  {f \in [1..k -> 1..n] : \A i, j \in 1..k : i # j => f[i] # f[j]}

\* the value an operation returns, or the exception it raises
Returned(v) == [raised |-> FALSE, value |-> v]
Raised      == [raised |-> TRUE, value |-> <<>>]

\* ---- random.sample ------------------------------------------------------
\* mutant: a sample that is cut to the population instead of raising
random_sample_clamped(population, k) ==
  {Returned([i \in 1..Min2(k, Len(population)) |-> population[f[i]]]) :
     f \in Injections(Min2(k, Len(population)), Len(population))}

\* mutant: a sample drawn with replacement (random.choices)
random_sample_replace(population, k) ==
  IF k > Len(population) \/ k < 0
  THEN {Raised}
  ELSE {Returned([i \in 1..k |-> population[f[i]]]) :
          f \in [1..k -> 1..Len(population)]}

\* random.sample(population, k): k members at distinct positions, in any
\* order; ValueError when k exceeds the population or is negative
random_sample(population, k) ==
  IF k > Len(population) \/ k < 0
  THEN {Raised}
  ELSE {Returned([i \in 1..k |-> population[f[i]]]) :
          f \in Injections(k, Len(population))}

\* ---- torch.utils.data.random_split --------------------------------------
Perms == {p \in [1..DataLen -> DataFull] :
            \A i, j \in 1..DataLen : i # j => p[i] # p[j]}

\* mutant: the two slices of the permutation overlap by one
random_split_overlap(perm) ==
  [unlabeled |-> SubSeq(perm, 1, SplitTrain),
   val       |-> SubSeq(perm, SplitTrain, DataLen - 1)]

\* random_split(data_full, [SplitTrain, SplitVal]) for one permutation
random_split(perm) ==
  [unlabeled |-> SubSeq(perm, 1, SplitTrain),
   val       |-> SubSeq(perm, SplitTrain + 1, DataLen)]

\* ---- balance_classes ----------------------------------------------------
\* class_indices[c]: the pool's members of class c, in pool order
class_indices(indices, c) ==
  SelectSeq(indices, LAMBDA index : targets(index) = c)

\* the generator of line 17 divides by every multiplier
balance_raises(balance) == \E c \in Classes : balance[c] = 0

\* a class attaining ref = min_c len(class_indices[c]) / balance[c]
ref_class(indices, balance) ==
  CHOOSE c \in Classes : \A d \in Classes :
    Len(class_indices(indices, c)) * balance[d]
      <= Len(class_indices(indices, d)) * balance[c]

\* int(ref * balance[c])
balanced_count(indices, balance, c) ==
  LET r == ref_class(indices, balance)
  IN  (Len(class_indices(indices, r)) * balance[c]) \div balance[r]

\* sum(balanced_indices, []) from class c on
RECURSIVE balanced_from(_, _, _)
balanced_from(indices, balance, c) ==
  IF c = NumClasses
  THEN {<<>>}
  ELSE {s.value \o rest :
          s \in random_sample(class_indices(indices, c),
                              balanced_count(indices, balance, c)),
          rest \in balanced_from(indices, balance, c + 1)}

\* balance_classes(subset, balance): the possible new subset.indices
balance_classes(indices, balance) ==
  IF balance_raises(balance)
  THEN {Raised}
  ELSE {Returned(b) : b \in balanced_from(indices, balance, 0)}

\* ---- label_indices ------------------------------------------------------
\* mutant: the chosen indices are not removed from the unlabeled pool
label_indices_keep(train, unlabeled, indices) ==
  [train |-> train \o indices, unlabeled |-> unlabeled]

\* label_indices(datamodule, indices)
label_indices(train, unlabeled, indices) ==
  [train     |-> train \o indices,
   unlabeled |-> SelectSeq(unlabeled, LAMBDA index : index \notin Range(indices))]

\* ---- torch.topk ---------------------------------------------------------
\* uncertainty.topk(k): k positions of the largest values, largest first;
\* which of several equal values is taken, and their order, is not defined.
\* RuntimeError when k is out of range.
topk(uncertainty, k) ==
  IF k > Len(uncertainty) \/ k < 0
  THEN {Raised}
  ELSE {Returned(f) : f \in
          {g \in Injections(k, Len(uncertainty)) :
             /\ \A i \in 1..(k - 1) : uncertainty[g[i]] >= uncertainty[g[i + 1]]
             /\ \A i \in 1..k : \A j \in 1..Len(uncertainty) :
                  j \notin Range(g) => uncertainty[g[i]] >= uncertainty[j]}}

\* the entropy vectors the model can give for a pool: one score per member,
\* position i for data_unlabeled.indices[i] (the loader does not shuffle).
\* A NaN score (0 * log 0) sorts above every number in topk, so it is the
\* top level here.
Uncertainties(unlabeled) == [1..Len(unlabeled) -> 0..MaxScore]

\* ---- label_randomly, label_uncertain ------------------------------------
\* what one acquisition call does: the pools it leaves, the indices it
\* passed to label_indices, the scores it used, the exception it raised
Outcome(raised, err, indices, uncertainty, pools) ==
  [raised |-> raised, err |-> err, indices |-> indices,
   uncertainty |-> uncertainty, pools |-> pools]

\* label_randomly(datamodule, amount)
label_randomly(train, unlabeled, amount) ==
  {IF s.raised
   THEN Outcome(TRUE, "ValueError", <<>>, <<>>,
                [train |-> train, unlabeled |-> unlabeled])
   ELSE Outcome(FALSE, "", s.value, <<>>,
                label_indices(train, unlabeled, s.value)) :
     s \in random_sample(unlabeled, amount)}

\* label_uncertain(datamodule, amount, model); torch.cat raises RuntimeError
\* on the empty list an empty pool gives, topk raises it when amount is out
\* of range
label_uncertain(train, unlabeled, amount) ==
  IF Len(unlabeled) = 0
  THEN {Outcome(TRUE, "RuntimeError", <<>>, <<>>,
                [train |-> train, unlabeled |-> unlabeled])}
  ELSE UNION {
    {IF t.raised
     THEN Outcome(TRUE, "RuntimeError", <<>>, u,
                  [train |-> train, unlabeled |-> unlabeled])
     ELSE LET chosen_indices == [i \in 1..amount |-> unlabeled[t.value[i]]]
          IN  Outcome(FALSE, "", chosen_indices, u,
                      label_indices(train, unlabeled, chosen_indices)) :
       t \in topk(u, amount)} : u \in Uncertainties(unlabeled)}

\* ---- MNISTDataModule.train_dataloader ------------------------------------
\* DataLoader(self.data_train, shuffle=True): the random sampler refuses an
\* empty dataset (ValueError), so no training runs on an empty labeled pool
train_dataloader_raises(train) == Len(train) = 0

\* ---- ALModel28.on_train_end ---------------------------------------------
on_train_end(epoch) == [current_epoch |-> epoch + 1, min_epochs |-> epoch + 2]

\* ---- main ---------------------------------------------------------------
\* mutant: an exception of trainer.fit is swallowed and the round goes on
main_next_swallow(at, raised, r) ==
  IF raised /\ at # "fit" THEN "error"
  ELSE CASE at = "setup"      -> "fit"
         [] at = "fit"        -> "test"
         [] at = "test"       -> "best_score"
         [] at = "best_score" -> "label"
         [] at = "label"      -> IF r + 1 < NumRounds THEN "fit" ELSE "done"

\* the next position of main() after the step at position `at` of round r:
\* nothing catches an exception, the loop body runs NumRounds times
main_next(at, raised, r) ==
  IF raised THEN "error"
  ELSE CASE at = "setup"      -> "fit"
         [] at = "fit"        -> "test"
         [] at = "test"       -> "best_score"
         [] at = "best_score" -> "label"
         [] at = "label"      -> IF r + 1 < NumRounds THEN "fit" ELSE "done"

\* the parsed arguments the data module and the loop use
HParams ==
  [class_balance     : [Classes -> Multipliers],
   initial_labels    : 0..MaxLabels,
   aquisition_labels : 0..MaxLabels,
   aquisition_method : {"random", "uncertain"}]

VARIABLES
  pc,              \* position of main(): setup, fit, test, best_score, label, done, error
  err,             \* class of the exception that ended main(), "" if none
  round,           \* completed iterations of the loop
  hparams,         \* args
  data_train,      \* mnist.data_train.indices (the labeled pool)
  data_unlabeled,  \* mnist.data_unlabeled.indices
  data_val,        \* mnist.data_val.indices
  best_score,      \* early_stopping_callback.best_score
  current_epoch,   \* trainer.fit_loop.current_epoch
  min_epochs,      \* trainer.fit_loop.min_epochs
  weights_trained, \* model.classifier holds the weights an earlier fit left
  split,           \* history: the index set of each part random_split returned
  bal,             \* history: the balance_classes call of setup (the index
                   \* set it was given, the list it left)
  last,            \* history: the last acquisition call, with the pools before it
  round_start,     \* history: the pools when the current round started
  fit_calls,       \* history: trainings started
  fit_raised,      \* history: a training has failed
  label_calls      \* history: acquisition calls made by the loop

vars == <<pc, err, round, hparams, data_train, data_unlabeled, data_val,
          best_score, current_epoch, min_epochs, weights_trained,
          split, bal, last, round_start, fit_calls, fit_raised, label_calls>>

Pools(train, unlabeled) == [train |-> train, unlabeled |-> unlabeled]

Call(op, amount, train, unlabeled, o) ==
  [op |-> op, amount |-> amount, train |-> train, unlabeled |-> unlabeled,
   raised |-> o.raised, indices |-> o.indices, uncertainty |-> o.uncertainty]

NoCall ==
  [op |-> "none", amount |-> 0, train |-> <<>>, unlabeled |-> <<>>,
   raised |-> FALSE, indices |-> <<>>, uncertainty |-> <<>>]

\* lines 242-252: the callback (best_score = Inf), the trainer, the model
\* and the data module are constructed; the pools do not exist yet
Init ==
  /\ pc = "setup"
  /\ err = ""
  /\ round = 0
  /\ hparams \in HParams
  /\ data_train = <<>>
  /\ data_unlabeled = <<>>
  /\ data_val = <<>>
  /\ best_score = Inf
  /\ current_epoch = 0
  /\ min_epochs = 1
  /\ weights_trained = FALSE
  /\ split = [called |-> FALSE, unlabeled |-> {}, val |-> {}]
  /\ bal = [called |-> FALSE, raised |-> FALSE, indices |-> {}, result |-> <<>>]
  /\ last = NoCall
  /\ round_start = Pools(<<>>, <<>>)
  /\ fit_calls = 0
  /\ fit_raised = FALSE
  /\ label_calls = 0

\* MNISTDataModule.setup("fit"), which the first trainer.fit runs, once
setup ==
  /\ pc = "setup"
  /\ \E perm \in Perms :
       LET sp == random_split(perm) IN
       \E b \in balance_classes(sp.unlabeled, hparams.class_balance) :
         /\ split' = [called |-> TRUE, unlabeled |-> Range(sp.unlabeled),
                      val |-> Range(sp.val)]
         /\ data_val' = sp.val
         /\ bal' = [called |-> TRUE, raised |-> b.raised,
                    indices |-> Range(sp.unlabeled), result |-> b.value]
         /\ IF b.raised
            THEN /\ data_unlabeled' = sp.unlabeled
                 /\ data_train' = <<>>
                 /\ last' = last
                 /\ round_start' = round_start
                 /\ err' = "ZeroDivisionError"
                 /\ pc' = main_next("setup", TRUE, round)
            ELSE \E o \in label_randomly(<<>>, b.value, hparams.initial_labels) :
                 /\ data_train' = o.pools.train
                 /\ data_unlabeled' = o.pools.unlabeled
                 /\ last' = Call("label_randomly", hparams.initial_labels,
                                 <<>>, b.value, o)
                 /\ round_start' = o.pools
                 /\ err' = o.err
                 /\ pc' = main_next("setup", o.raised, round)
  /\ UNCHANGED <<round, hparams, best_score, current_epoch, min_epochs,
                 weights_trained, fit_calls, fit_raised, label_calls>>

\* trainer.fit(model, mnist) trains to the end: the callback keeps the best
\* validation loss, on_train_end moves the epoch counters
fit_returns ==
  /\ pc = "fit"
  /\ ~train_dataloader_raises(data_train)
  /\ \E loss \in 0..MaxScore, epochs \in 1..MaxFitEpochs :
       LET e == on_train_end(current_epoch + epochs - 1) IN
       /\ best_score' = Min2(best_score, loss)
       /\ current_epoch' = e.current_epoch
       /\ min_epochs' = e.min_epochs
  /\ weights_trained' = TRUE
  /\ fit_calls' = fit_calls + 1
  /\ pc' = main_next("fit", FALSE, round)
  /\ UNCHANGED <<err, round, hparams, data_train, data_unlabeled, data_val,
                 split, bal, last, round_start, fit_raised, label_calls>>

\* trainer.fit(model, mnist) raises (the data loader, the training step,
\* the device, ...)
fit_raises ==
  /\ pc = "fit"
  /\ fit_calls' = fit_calls + 1
  /\ fit_raised' = TRUE
  /\ err' = "TrainerError"
  /\ pc' = main_next("fit", TRUE, round)
  /\ UNCHANGED <<round, hparams, data_train, data_unlabeled, data_val,
                 best_score, current_epoch, min_epochs, weights_trained,
                 split, bal, last, round_start, label_calls>>

\* trainer.test(model, mnist)
test ==
  /\ pc = "test"
  /\ pc' = main_next("test", FALSE, round)
  /\ UNCHANGED <<err, round, hparams, data_train, data_unlabeled, data_val,
                 best_score, current_epoch, min_epochs, weights_trained,
                 split, bal, last, round_start, fit_calls, fit_raised, label_calls>>

\* early_stopping_callback.best_score = torch.tensor(numpy.Inf)
reset_best_score ==
  /\ pc = "best_score"
  /\ best_score' = Inf
  /\ pc' = main_next("best_score", FALSE, round)
  /\ UNCHANGED <<err, round, hparams, data_train, data_unlabeled, data_val,
                 current_epoch, min_epochs, weights_trained,
                 split, bal, last, round_start, fit_calls, fit_raised, label_calls>>

\* the rest of the loop body once the acquisition call had outcome o
Acquired(op, o) ==
  /\ data_train' = o.pools.train
  /\ data_unlabeled' = o.pools.unlabeled
  /\ last' = Call(op, hparams.aquisition_labels, data_train, data_unlabeled, o)
  /\ label_calls' = label_calls + 1
  /\ err' = o.err
  /\ round' = IF o.raised THEN round ELSE round + 1
  /\ round_start' = IF o.raised THEN round_start ELSE o.pools
  /\ pc' = main_next("label", o.raised, round)
  /\ UNCHANGED <<hparams, data_val, best_score, current_epoch, min_epochs,
                 weights_trained, split, bal, fit_calls, fit_raised>>

\* label_randomly(mnist, args.aquisition_labels)
acquire_random ==
  /\ pc = "label"
  /\ hparams.aquisition_method = "random"
  /\ \E o \in label_randomly(data_train, data_unlabeled, hparams.aquisition_labels) :
       Acquired("label_randomly", o)

\* label_uncertain(mnist, args.aquisition_labels, model)
acquire_uncertain ==
  /\ pc = "label"
  /\ hparams.aquisition_method = "uncertain"
  /\ \E o \in label_uncertain(data_train, data_unlabeled, hparams.aquisition_labels) :
       Acquired("label_uncertain", o)

Next ==
  \/ setup
  \/ fit_returns
  \/ fit_raises
  \/ test
  \/ reset_best_score
  \/ acquire_random
  \/ acquire_uncertain

Spec == Init /\ [][Next]_vars

\* ---- label_indices called by another caller -----------------------------
\* the lists a caller can pass: up to MaxLabels indices of the dataset
IndexLists == UNION {[1..n -> DataFull] : n \in 0..MaxLabels}

\* a caller other than main() passes its own list to label_indices on the
\* data module main() has set up, and stops
label_indices_call ==
  /\ pc = "label"
  /\ \E indices \in IndexLists :
       LET pools == label_indices(data_train, data_unlabeled, indices) IN
       /\ data_train' = pools.train
       /\ data_unlabeled' = pools.unlabeled
       /\ last' = Call("label_indices", Len(indices), data_train, data_unlabeled,
                       Outcome(FALSE, "", indices, <<>>, pools))
  /\ pc' = "done"
  /\ UNCHANGED <<err, round, hparams, data_val, best_score, current_epoch,
                 min_epochs, weights_trained, split, bal, round_start,
                 fit_calls, fit_raised, label_calls>>

NextApi == Next \/ label_indices_call

SpecApi == Init /\ [][NextApi]_vars

\* ---- what the properties speak of ---------------------------------------
\* the last acquisition call was one of the two strategies
StrategyCall == last.op \in {"label_randomly", "label_uncertain"}

\* the indices the last call appended to the labeled pool
Moved == SubSeq(data_train, Len(last.train) + 1, Len(data_train))

\* setup has returned without an exception
SetupDone == split.called /\ ~(pc = "error" /\ fit_calls = 0)

InOne(index, train, unlabeled) ==
  (index \in Range(train)) # (index \in Range(unlabeled))

\* C1: the labeled and the unlabeled pool share no index, neither holds an
\* index twice, and a strategy's label call leaves the sum of their sizes
\* as it was before the call.
C1_PoolsPartition ==
  /\ Range(data_train) \cap Range(data_unlabeled) = {}
  /\ NoDup(data_train)
  /\ NoDup(data_unlabeled)
  /\ StrategyCall =>
       Len(data_train) + Len(data_unlabeled) = Len(last.train) + Len(last.unlabeled)

C1_Witness ==
  /\ last.op = "label_uncertain"
  /\ ~last.raised
  /\ round >= 1
  /\ Len(last.train) > 0
  /\ Len(Moved) > 0
  /\ Len(data_unlabeled) > 0

\* C2 (as claimed): a run of NumRounds rounds that reaches the end of the
\* loop has made NumRounds - 1 acquisition calls, none in the final round.
C2_Orig == pc = "done" => label_calls = NumRounds - 1

\* C3 (as claimed): label_indices with an index that is not in the unlabeled
\* pool fails and leaves both pools as they were.
C3_Orig ==
  (last.op = "label_indices" /\ ~(Range(last.indices) \subseteq Range(last.unlabeled)))
    => /\ last.raised
       /\ data_train = last.train
       /\ data_unlabeled = last.unlabeled

\* C4: a strategy asked for more indices than the unlabeled pool holds
\* raises, with both pools as they were before the call, and main() ends.
C4_InsufficientPool ==
  (StrategyCall /\ last.amount > Len(last.unlabeled))
    => /\ last.raised
       /\ data_train = last.train
       /\ data_unlabeled = last.unlabeled
       /\ pc = "error"
       /\ err \in {"ValueError", "RuntimeError"}

C4_Witness ==
  /\ last.op = "label_uncertain"
  /\ last.amount > Len(last.unlabeled)
  /\ Len(last.unlabeled) > 0
  /\ Len(last.train) > 0
  /\ pc = "error"

\* C5: a strategy asked for count <= |unlabeled| indices appends exactly
\* count indices to the labeled pool, all different, all from the unlabeled
\* pool as it was, and removes just these from the unlabeled pool; with
\* count = |unlabeled| the unlabeled pool ends empty.
C5_MovesCount ==
  (StrategyCall /\ last.amount <= Len(last.unlabeled))
    => /\ SubSeq(data_train, 1, Len(last.train)) = last.train
       /\ Len(Moved) = last.amount
       /\ NoDup(Moved)
       /\ Range(Moved) \subseteq Range(last.unlabeled)
       /\ Range(data_unlabeled) = Range(last.unlabeled) \ Range(Moved)
       /\ last.amount = Len(last.unlabeled) => data_unlabeled = <<>>

C5_Witness ==
  /\ StrategyCall
  /\ ~last.raised
  /\ last.amount = Len(last.unlabeled)
  /\ last.amount = MaxLabels
  /\ round >= 1
  /\ data_unlabeled = <<>>

\* the positions a first-seen-wins selection of the k largest scores takes
FirstSeenTop(uncertainty, k) ==
  {p \in 1..Len(uncertainty) :
     Cardinality({q \in 1..Len(uncertainty) :
                    \/ uncertainty[q] > uncertainty[p]
                    \/ uncertainty[q] = uncertainty[p] /\ q < p}) < k}

\* C6 (as claimed): label_uncertain labels the count members with the
\* highest score, position i scoring data_unlabeled.indices[i], the earlier
\* member of the pool winning a tie.
C6_Orig ==
  (last.op = "label_uncertain" /\ ~last.raised)
    => Range(Moved) =
         {last.unlabeled[p] : p \in FirstSeenTop(last.uncertainty, last.amount)}

\* the classes with a positive multiplier
Positive(balance) == {c \in Classes : balance[c] > 0}

\* avail_c: the members of class c in a set of indices
Avail(indices, c) == Cardinality({index \in indices : targets(index) = c})

\* floor(ref * m_c), ref the least avail_c / m_c over the positive classes
ClaimedCount(indices, balance, c) ==
  LET r == CHOOSE x \in Positive(balance) : \A d \in Positive(balance) :
             Avail(indices, x) * balance[d] <= Avail(indices, d) * balance[x]
  IN  (Avail(indices, r) * balance[c]) \div balance[r]

\* C7 (as claimed): balance_classes, given at least one positive multiplier,
\* does not fail, a zero multiplier included, and leaves floor(ref * m_c)
\* different members of each class c, ref taken over the positive classes.
C7_Orig ==
  (bal.called /\ Positive(hparams.class_balance) # {})
    => /\ ~bal.raised
       /\ NoDup(bal.result)
       /\ Range(bal.result) \subseteq bal.indices
       /\ \A c \in Classes :
            Len(class_indices(bal.result, c))
              = ClaimedCount(bal.indices, hparams.class_balance, c)

\* C8 (as claimed): when trainer.fit is called the model's weights have been
\* reset since the training before, and the best score is the sentinel.
C8_Orig == pc = "fit" => (~weights_trained /\ best_score = Inf)

C10_Orig ==
  SetupDone
    => /\ \A index \in split.unlabeled :
            InOne(index, data_train, data_unlabeled)
       /\ Range(data_val) = split.val
       /\ Range(data_val) \cap (Range(data_train) \cup Range(data_unlabeled)) = {}

\* C10 (amended): after setup every index that class balancing kept is in
\* exactly one of the two pools and no other index is in either; the
\* validation pool is as split and shares no index with them.
C10_BalancedPartition ==
  SetupDone
    => /\ \A index \in Range(bal.result) :
            InOne(index, data_train, data_unlabeled)
       /\ Range(data_train) \cup Range(data_unlabeled) = Range(bal.result)
       /\ Range(bal.result) \subseteq split.unlabeled
       /\ Range(data_val) = split.val
       /\ Len(data_val) = SplitVal
       /\ Range(data_val) \cap (Range(data_train) \cup Range(data_unlabeled)) = {}

C10_Witness ==
  /\ SetupDone
  /\ round >= 1
  /\ Len(bal.result) < Cardinality(split.unlabeled)
  /\ Len(data_train) > 0
  /\ Len(data_unlabeled) > 0

====
